---- MODULE Spec2Model ----
(***************************************************************************)
(* Model of the Gantt rendering service (authorizer.js, handler.js,        *)
(* ganttBuilder.js) and of the asset records API (app/api routes,          *)
(* lib/lifecycle, lib/audit).                                              *)
(*                                                                         *)
(* Dates.  A calendar day is an integer (the day number of a 'yyyy-MM-dd'  *)
(* string); an instant (a JavaScript Date) is an integer number of ticks,  *)
(* TicksPerDay ticks to the day, so that a Date carries a time of day and  *)
(* format(d, 'yyyy-MM-dd') is not the identity.  The process runs in UTC   *)
(* (AWS Lambda), so parseISO and new Date(string) agree on date strings.   *)
(***************************************************************************)
EXTENDS Integers, Sequences, FiniteSets, TLC

VARIABLES
    authToken,  \* process.env.AUTH_TOKEN
    event,      \* the incoming request: [hasHeaders, apiKey, body]
    policy,     \* what authorize returned for the event
    pc,         \* position of the invocation
    tasks,      \* the task list handed to buildHTML
    now,        \* the instant new Date() yields during the invocation
    browser,    \* the headless browser: "none", "open", "closed"
    response,   \* what the invocation answered
    doc,        \* what buildHTML produced
    log,        \* the steps the invocation has performed, in order
    todayAtLoad, \* the module-level const today of ganttBuilder.js, set at load
    db,         \* the database behind the asset records API
    reqs        \* the API requests in flight

vars == <<authToken, event, policy, pc, tasks, now, browser, response, doc, log,
          todayAtLoad, db, reqs>>

(* ---------------------------- bounds ----------------------------------- *)

MaxTasks == 3       \* longest task list handed to buildHTML
MaxDay == 2         \* task dates are the days 0..MaxDay
TicksPerDay == 2    \* resolution of an instant within a day
MaxInvocations == 2 \* invocations served by one process
MaxRequests == 3    \* requests the API receives
MonthDays == 4      \* days in a month of the calendar

(* ---------------------------- values ----------------------------------- *)

\* values of the x-api-key header and of AUTH_TOKEN
Tokens == {"s3cret", "guess"}

\* JavaScript's undefined: an absent header, an unset environment variable,
\* a missing body; it differs from every string
Undefined == "<undefined>"

Pad == 3

MROs == {"MLB", "TUS"}
Aircrafts == {"4884", "4885"}

Days == 0..MaxDay

Min(S) == CHOOSE m \in S : \A n \in S : m <= n
Max(S) == CHOOSE m \in S : \A n \in S : m >= n

\* the sequences over S of length lo..hi
SeqsOf(S, lo, hi) == UNION {[1..n -> S] : n \in lo..hi}

(* ------------------------ authorizer.js -------------------------------- *)

Allow == [Effect |-> "Allow", user |-> "trusted-client"]
Deny == [Effect |-> "Deny", user |-> "unauthorized"]

\* a gate that lets every request pass while no value is configured
authorizeOpenWhenUnset(token, expectedToken) ==
    IF token = expectedToken \/ expectedToken = Undefined THEN Allow ELSE Deny

\* the policy for a header value and a configured value: the Effect of the
\* one Statement and context.user
authorize(token, expectedToken) ==
    IF token = expectedToken THEN Allow ELSE Deny

\* event.headers['x-api-key']: Undefined when the header is absent
HeaderToken(ev) == ev.apiKey

\* one call of authorize; reading a property of an absent headers object
\* throws a TypeError before any decision
Authorize ==
    /\ pc = "gate"
    /\ policy' = IF event.hasHeaders
                 THEN authorize(HeaderToken(event), authToken)
                 ELSE [Effect |-> "threw", user |-> Undefined]
    /\ pc' = "dispatch"
    /\ log' = Append(log, "authorize")
    /\ UNCHANGED <<authToken, event, tasks, now, browser, response, doc>>
    /\ UNCHANGED <<todayAtLoad, db, reqs>>

(* ------------------- hosting layer (API Gateway) ----------------------- *)

\* a hosting layer that invokes the handler whatever the authorizer answered
DispatchUnconditional ==
    /\ pc = "dispatch"
    /\ pc' = "path"
    /\ log' = Append(log, "dispatch")
    /\ UNCHANGED <<authToken, event, policy, tasks, now, browser, response, doc>>
    /\ UNCHANGED <<todayAtLoad, db, reqs>>

\* the hosting layer's use of the authorizer's answer: the render handler
\* is invoked for an Allow policy only; a Deny policy is answered 403 and a
\* failed authorizer 500, neither invoking the handler
Dispatch ==
    /\ pc = "dispatch"
    /\ IF policy.Effect = "Allow"
       THEN /\ pc' = "path"
            /\ UNCHANGED response
       ELSE /\ pc' = "done"
            /\ response' = [statusCode |-> IF policy.Effect = "Deny" THEN 403 ELSE 500,
                            error |-> "", png |-> FALSE]
    /\ log' = Append(log, "dispatch")
    /\ UNCHANGED <<authToken, event, policy, tasks, now, browser, doc>>
    /\ UNCHANGED <<todayAtLoad, db, reqs>>

(* --------------------------- handler.js -------------------------------- *)

\* a task record: Group is its 'Component Group' label (a number here), Start
\* and End the days of 'Start Date' and 'End Date', Pct its PercentComplete
\* in ten-thousandths (5000 is "0.5")
TaskA == [Group |-> 1, MRO |-> "MLB", Aircraft |-> "4884", Start |-> 0, End |-> 1,
          Warning |-> "N/A", Pct |-> 5000]

\* the bodies a request may carry; Undefined is a request without a body
Bodies == {Undefined, "", "{", "{\"tasks\":[", "null", "5", "\"x\"", "true", "[]", "{}",
           "{\"tasks\":5}", "{\"tasks\":null}", "{\"tasks\":[]}", "{\"tasks\":[TaskA]}"}

\* JSON.parse on the texts of Bodies: the kind of value parsed (or a
\* SyntaxError), and for an object its 'tasks' member
JSONparse(text) ==
    CASE text \in {"", "{", "{\"tasks\":["} -> [kind |-> "SyntaxError"]
      [] text = "null" -> [kind |-> "null"]
      [] text = "5" -> [kind |-> "number"]
      [] text = "\"x\"" -> [kind |-> "string"]
      [] text = "true" -> [kind |-> "boolean"]
      [] text = "[]" -> [kind |-> "array"]
      [] text = "{}" -> [kind |-> "object", has |-> FALSE]
      [] text = "{\"tasks\":5}" -> [kind |-> "object", has |-> TRUE, isArray |-> FALSE]
      [] text = "{\"tasks\":null}" -> [kind |-> "object", has |-> TRUE, isArray |-> FALSE]
      [] text = "{\"tasks\":[]}" ->
            [kind |-> "object", has |-> TRUE, isArray |-> TRUE, tasks |-> <<>>]
      [] text = "{\"tasks\":[TaskA]}" ->
            [kind |-> "object", has |-> TRUE, isArray |-> TRUE, tasks |-> <<TaskA>>]

\* event.body || '{}': a missing body and the empty string are falsy
BodyText(ev) == IF ev.body \in {Undefined, ""} THEN "{}" ELSE ev.body

\* the try block of render: "tasks" with the array, "invalid" for the 400 of
\* the else branch, "malformed" for the 400 of the catch.  Reading .tasks of
\* null throws a TypeError inside the try; a number, string, boolean or
\* array has no tasks property
ParseTasks(ev) ==
    LET body == JSONparse(BodyText(ev)) IN
    CASE body.kind = "SyntaxError" -> [out |-> "malformed"]
      [] body.kind = "null" -> [out |-> "malformed"]
      [] body.kind \in {"number", "string", "boolean", "array"} -> [out |-> "invalid"]
      [] body.kind = "object" ->
            IF body.has /\ body.isArray
            THEN [out |-> "tasks", tasks |-> body.tasks]
            ELSE [out |-> "invalid"]

NoResponse == [statusCode |-> 0, error |-> "", png |-> FALSE]

\* the invocation ends with an uncaught rejection
Crash == [statusCode |-> 0, error |-> "unhandled rejection", png |-> FALSE]

BadRequest(msg) == [statusCode |-> 400, error |-> msg, png |-> FALSE]

\* await chromium.executablePath(): resolves, or rejects and ends the invocation
ExecutablePath ==
    /\ pc = "path"
    /\ \E ok \in BOOLEAN :
          IF ok THEN /\ pc' = "parse"
                     /\ UNCHANGED response
                ELSE /\ pc' = "done"
                     /\ response' = Crash
    /\ log' = Append(log, "executablePath")
    /\ UNCHANGED <<authToken, event, policy, tasks, now, browser, doc>>
    /\ UNCHANGED <<todayAtLoad, db, reqs>>

\* the try/catch that parses event.body
ParseBody ==
    /\ pc = "parse"
    /\ LET r == ParseTasks(event) IN
          IF r.out = "tasks"
          THEN /\ tasks' = r.tasks
               /\ pc' = "launch"
               /\ UNCHANGED response
          ELSE /\ pc' = "done"
               /\ response' = BadRequest(IF r.out = "invalid"
                                         THEN "Invalid or missing tasks array"
                                         ELSE "Malformed JSON")
               /\ UNCHANGED tasks
    /\ log' = Append(log, "parse")
    /\ UNCHANGED <<authToken, event, policy, now, browser, doc>>
    /\ UNCHANGED <<todayAtLoad, db, reqs>>

\* await puppeteer.launch(...)
Launch ==
    /\ pc = "launch"
    /\ \E ok \in BOOLEAN :
          IF ok THEN /\ pc' = "newPage"
                     /\ browser' = "open"
                     /\ UNCHANGED response
                ELSE /\ pc' = "done"
                     /\ response' = Crash
                     /\ UNCHANGED browser
    /\ log' = Append(log, "launch")
    /\ UNCHANGED <<authToken, event, policy, tasks, now, doc>>
    /\ UNCHANGED <<todayAtLoad, db, reqs>>

\* await browser.newPage()
NewPage ==
    /\ pc = "newPage"
    /\ \E ok \in BOOLEAN :
          IF ok THEN /\ pc' = "setContent"
                     /\ UNCHANGED response
                ELSE /\ pc' = "done"
                     /\ response' = Crash
    /\ log' = Append(log, "newPage")
    /\ UNCHANGED <<authToken, event, policy, tasks, now, browser, doc>>
    /\ UNCHANGED <<todayAtLoad, db, reqs>>

(* ------------------------- ganttBuilder.js ----------------------------- *)

\* parseISO / new Date(string) of the date string of a calendar day: its
\* midnight
parseISO(day) == day * TicksPerDay

\* format(d, 'yyyy-MM-dd'): the calendar day an instant falls in
format(d) == d \div TicksPerDay

addDays(d, n) == d + n * TicksPerDay

\* format(d, 'MMMM yyyy'): the month, with its year, that an instant falls
\* in; day 0 is the first day of month 0
formatMonth(d) == format(d) \div MonthDays

\* eachDayOfInterval: the midnight of every day from start's day to end's
eachDayOfInterval(start, end) ==
    [k \in 1..(format(end) - format(start) + 1) |-> parseISO(format(start) + k - 1)]

\* a sampling that keeps the days at an even index only
filterEvenOnly(fullRange, todayStr) ==
    LET f[n \in 0..Len(fullRange)] ==
            IF n = 0 THEN <<>>
            ELSE IF (n - 1) % 2 = 0
                 THEN Append(f[n - 1], fullRange[n])
                 ELSE f[n - 1]
    IN f[Len(fullRange)]

\* fullRange.filter((d, i) => i % 2 === 0 || format(d) === todayStr): the
\* days at an even zero-based index and the day of todayStr, in order
filter(fullRange, todayStr) ==
    LET f[n \in 0..Len(fullRange)] ==
            IF n = 0 THEN <<>>
            ELSE IF (n - 1) % 2 = 0 \/ format(fullRange[n]) = todayStr
                 THEN Append(f[n - 1], fullRange[n])
                 ELSE f[n - 1]
    IN f[Len(fullRange)]

\* a date-grid whose upper bound is taken from the start dates
getTimelineRangeFromStarts(ts, today) ==
    LET startDates == {parseISO(ts[k].Start) : k \in DOMAIN ts}
        fullRange == eachDayOfInterval(addDays(Min(startDates), -Pad),
                                       addDays(Max(startDates), Pad))
        todayStr == format(today)
    IN filter(fullRange, todayStr)

\* the date-grid of a non-empty task list, today being the instant new Date()
getTimelineRange(ts, today) ==
    LET startDates == {parseISO(ts[k].Start) : k \in DOMAIN ts}
        endDates == {parseISO(ts[k].End) : k \in DOMAIN ts}
        fullRange == eachDayOfInterval(addDays(Min(startDates), -Pad),
                                       addDays(Max(endDates), Pad))
        todayStr == format(today)
    IN filter(fullRange, todayStr)

\* a month header that never writes the band still open after the last day
generateMonthHeaderNoFlush(range) ==
    LET f[i \in 0..Len(range)] ==
            IF i = 0 THEN [html |-> <<>>, current |-> formatMonth(range[1]), span |-> 0]
            ELSE LET prev == f[i - 1]
                     m == formatMonth(range[i])
                 IN IF m = prev.current
                    THEN [prev EXCEPT !.span = prev.span + 1]
                    ELSE [html |-> Append(prev.html, [month |-> prev.current,
                                                      colspan |-> prev.span]),
                          current |-> m, span |-> 1]
    IN f[Len(range)].html

\* generateMonthHeader(range) for a non-empty range: the bands written, each
\* with its month and colspan; f[i] is the state of the forEach after the
\* callback of index i - 1
generateMonthHeader(range) ==
    LET f[i \in 0..Len(range)] ==
            IF i = 0 THEN [html |-> <<>>, current |-> formatMonth(range[1]), span |-> 0]
            ELSE LET prev == f[i - 1]
                     m == formatMonth(range[i])
                     step == IF m = prev.current
                             THEN [prev EXCEPT !.span = prev.span + 1]
                             ELSE [html |-> Append(prev.html, [month |-> prev.current,
                                                               colspan |-> prev.span]),
                                   current |-> m, span |-> 1]
                 IN IF i = Len(range)
                    THEN [step EXCEPT !.html = Append(step.html, [month |-> step.current,
                                                                   colspan |-> step.span])]
                    ELSE step
    IN f[Len(range)].html

\* the forEach of buildHTML for earliestAc: per Aircraft value, the least end
\* date over all tasks carrying it
earliestAc(ts) ==
    LET f[n \in 0..Len(ts)] ==
            IF n = 0 THEN [k \in {} |-> 0]
            ELSE LET prev == f[n - 1]
                     key == ts[n].Aircraft
                     end == parseISO(ts[n].End)
                 IN IF key \notin DOMAIN prev \/ end < prev[key]
                    THEN [k \in DOMAIN prev \cup {key} |-> IF k = key THEN end ELSE prev[k]]
                    ELSE prev
    IN f[Len(ts)]

\* the same for earliestMro: per MRO value, the least end date
earliestMro(ts) ==
    LET f[n \in 0..Len(ts)] ==
            IF n = 0 THEN [k \in {} |-> 0]
            ELSE LET prev == f[n - 1]
                     key == ts[n].MRO
                     end == parseISO(ts[n].End)
                 IN IF key \notin DOMAIN prev \/ end < prev[key]
                    THEN [k \in DOMAIN prev \cup {key} |-> IF k = key THEN end ELSE prev[k]]
                    ELSE prev
    IN f[Len(ts)]

\* the comparator handed to tasks.sort: negative when a goes first
compare(a, b, eMro, eAc) ==
    LET mroDiff == eMro[a.MRO] - eMro[b.MRO]
        acDiff == eAc[a.Aircraft] - eAc[b.Aircraft]
    IN IF mroDiff # 0 THEN mroDiff
       ELSE IF acDiff # 0 THEN acDiff
       ELSE parseISO(a.End) - parseISO(b.End)

\* a sort that puts an element before the ones it ties with
sortUnstable(ts, eMro, eAc) ==
    LET insert(sorted, t) ==
            LET after == {k \in DOMAIN sorted : compare(sorted[k], t, eMro, eAc) >= 0}
                at == IF after = {} THEN Len(sorted) + 1 ELSE Min(after)
            IN SubSeq(sorted, 1, at - 1) \o <<t>> \o SubSeq(sorted, at, Len(sorted))
        f[n \in 0..Len(ts)] == IF n = 0 THEN <<>> ELSE insert(f[n - 1], ts[n])
    IN f[Len(ts)]

\* Array.prototype.sort with that comparator: a stable sort, here by
\* insertion of each element before the first one that must follow it
sort(ts, eMro, eAc) ==
    LET insert(sorted, t) ==
            LET after == {k \in DOMAIN sorted : compare(sorted[k], t, eMro, eAc) > 0}
                at == IF after = {} THEN Len(sorted) + 1 ELSE Min(after)
            IN SubSeq(sorted, 1, at - 1) \o <<t>> \o SubSeq(sorted, at, Len(sorted))
        f[n \in 0..Len(ts)] == IF n = 0 THEN <<>> ELSE insert(f[n - 1], ts[n])
    IN f[Len(ts)]

\* the class of the warning cell and of the bar track
warnClass(Warning) ==
    IF Warning = "Work Stoppage" THEN "warning-critical"
    ELSE IF Warning \notin {Undefined, "", "N/A"} THEN "warning-caution"
    ELSE ""

\* a label that cuts the percentage after the first decimal
toFixed1Truncated(p) == <<(p \div 10) \div 10, (p \div 10) % 10>>

\* (pct * 100).toFixed(1) for pct = p / 10000 >= 0: the percentage rounded to
\* the nearest tenth, half up, as <<whole part, decimal digit>>.  The
\* integer arithmetic here and in cells gives what the double arithmetic of
\* the code gives for the values of Pcts
toFixed1(p) == <<((p + 5) \div 10) \div 10, ((p + 5) \div 10) % 10>>

\* cells with the span of the bar counted in calendar days, not grid days
RECURSIVE cellsByCalendarDays(_, _, _, _, _)
cellsByCalendarDays(range, t, today, i, placed) ==
    IF i > Len(range) THEN <<>>
    ELSE LET d == range[i]
             start == parseISO(t.Start)
             end == parseISO(t.End)
             isToday == format(d) = format(today)
         IN IF ~placed /\ d >= start /\ d <= end
            THEN LET span == format(end) - format(d) + 1
                 IN <<[class |-> "fill-cell", col |-> i, colspan |-> span,
                       track |-> warnClass(t.Warning),
                       complete |-> t.Pct >= 10000,
                       width |-> t.Pct \div 100,
                       label |-> toFixed1(t.Pct)]>>
                    \o cellsByCalendarDays(range, t, today, i + span, TRUE)
            ELSE <<[class |-> IF isToday THEN "today-col" ELSE "", col |-> i]>>
                 \o cellsByCalendarDays(range, t, today, i + 1, placed)

\* cells whose today marker compares the instants, not the calendar days
RECURSIVE cellsTodayByInstant(_, _, _, _, _)
cellsTodayByInstant(range, t, today, i, placed) ==
    IF i > Len(range) THEN <<>>
    ELSE LET d == range[i]
             start == parseISO(t.Start)
             end == parseISO(t.End)
             isToday == d = today
         IN IF ~placed /\ d >= start /\ d <= end
            THEN LET span == Cardinality({k \in DOMAIN range :
                                            range[k] >= start /\ range[k] <= end})
                 IN <<[class |-> "fill-cell", col |-> i, colspan |-> span,
                       track |-> warnClass(t.Warning),
                       complete |-> t.Pct >= 10000,
                       width |-> t.Pct \div 100,
                       label |-> toFixed1(t.Pct)]>>
                    \o cellsTodayByInstant(range, t, today, i + span, TRUE)
            ELSE <<[class |-> IF isToday THEN "today-col" ELSE "", col |-> i]>>
                 \o cellsTodayByInstant(range, t, today, i + 1, placed)

\* cells whose loop goes on at the next index after the bar
RECURSIVE cellsNoSkip(_, _, _, _, _)
cellsNoSkip(range, t, today, i, placed) ==
    IF i > Len(range) THEN <<>>
    ELSE LET d == range[i]
             start == parseISO(t.Start)
             end == parseISO(t.End)
             isToday == format(d) = format(today)
         IN IF ~placed /\ d >= start /\ d <= end
            THEN LET span == Cardinality({k \in DOMAIN range :
                                            range[k] >= start /\ range[k] <= end})
                 IN <<[class |-> "fill-cell", col |-> i, colspan |-> span,
                       track |-> warnClass(t.Warning),
                       complete |-> t.Pct >= 10000,
                       width |-> t.Pct \div 100,
                       label |-> toFixed1(t.Pct)]>>
                    \o cellsNoSkip(range, t, today, i + 1, TRUE)
            ELSE <<[class |-> IF isToday THEN "today-col" ELSE "", col |-> i]>>
                 \o cellsNoSkip(range, t, today, i + 1, placed)

\* the cells of one task row from grid index i on (1-based), placed telling
\* whether the bar has been emitted: the inner for loop of buildHTML
RECURSIVE cells(_, _, _, _, _)
cells(range, t, today, i, placed) ==
    IF i > Len(range) THEN <<>>
    ELSE LET d == range[i]
             start == parseISO(t.Start)
             end == parseISO(t.End)
             isToday == format(d) = format(today)
         IN IF ~placed /\ d >= start /\ d <= end
            THEN LET span == Cardinality({k \in DOMAIN range :
                                            range[k] >= start /\ range[k] <= end})
                 IN <<[class |-> "fill-cell", col |-> i, colspan |-> span,
                       track |-> warnClass(t.Warning),
                       complete |-> t.Pct >= 10000,
                       width |-> t.Pct \div 100,
                       label |-> toFixed1(t.Pct)]>>
                    \o cells(range, t, today, i + span, TRUE)
            ELSE <<[class |-> IF isToday THEN "today-col" ELSE "", col |-> i]>>
                 \o cells(range, t, today, i + 1, placed)

\* the rows of the table body for the sorted tasks from index n on: the
\* outer for loop of buildHTML with its lastMro and lastAc
RECURSIVE rows(_, _, _, _, _, _)
rows(ts, range, today, n, lastMro, lastAc) ==
    IF n > Len(ts) THEN <<>>
    ELSE LET t == ts[n]
             newMro == t.MRO # lastMro
             lastAc1 == IF newMro THEN "" ELSE lastAc
             mroRows == IF newMro
                        THEN (IF lastMro # "" THEN <<[class |-> "mro-spacer"]>> ELSE <<>>)
                             \o <<[class |-> "mro-header", text |-> t.MRO]>>
                        ELSE <<>>
             acRows == IF t.Aircraft # lastAc1
                       THEN <<[class |-> "ac-header", text |-> t.Aircraft]>>
                       ELSE <<>>
         IN mroRows \o acRows
            \o <<[class |-> "task-row", task |-> t, warn |-> warnClass(t.Warning),
                  cells |-> cells(range, t, today, 1, FALSE)]>>
            \o rows(ts, range, today, n + 1, t.MRO, t.Aircraft)

\* a buildHTML that sorts the caller's array in place
callerTasksSortedInPlace(tasksRaw) ==
    sort(tasksRaw, earliestMro(tasksRaw), earliestAc(tasksRaw))

\* the array the caller handed to buildHTML, as it is after the call:
\* buildHTML sorts [...tasksRaw], a copy, and never writes to tasksRaw
callerTasks(tasksRaw) == tasksRaw

NoDoc == [built |-> FALSE, threw |-> FALSE, tasks |-> <<>>, range |-> <<>>,
          months |-> <<>>, body |-> <<>>]

\* buildHTML(tasksRaw): the sorted copy, the date-grid, the month header and
\* the body rows of the document.  With no task the bounds of the grid are Invalid Dates and
\* the call throws a RangeError
buildHTML(tasksRaw, today) ==
    IF tasksRaw = <<>>
    THEN [built |-> FALSE, threw |-> TRUE, tasks |-> <<>>, range |-> <<>>,
          months |-> <<>>, body |-> <<>>]
    ELSE LET sorted == sort(tasksRaw, earliestMro(tasksRaw), earliestAc(tasksRaw))
             range == getTimelineRange(sorted, today)
         IN [built |-> TRUE, threw |-> FALSE, tasks |-> sorted, range |-> range,
             months |-> generateMonthHeader(range),
             body |-> rows(sorted, range, today, 1, "", "")]

(* ---------------------- handler.js, continued -------------------------- *)

OK200 == [statusCode |-> 200, error |-> "", png |-> TRUE]

\* await page.setContent(buildHTML(tasks), ...): buildHTML runs first and may
\* throw; setContent may reject.  Either ends the invocation at once
SetContent ==
    /\ pc = "setContent"
    /\ LET d == buildHTML(tasks, now) IN
          /\ doc' = d
          /\ tasks' = callerTasks(tasks)
          /\ IF d.threw
             THEN /\ pc' = "done"
                  /\ response' = Crash
                  /\ log' = Append(log, "buildHTML")
             ELSE /\ log' = log \o <<"buildHTML", "setContent">>
                  /\ \E ok \in BOOLEAN :
                        IF ok THEN /\ pc' = "screenshot"
                                   /\ UNCHANGED response
                              ELSE /\ pc' = "done"
                                   /\ response' = Crash
    /\ UNCHANGED <<authToken, event, policy, now, browser>>
    /\ UNCHANGED <<todayAtLoad, db, reqs>>

\* a handler that goes on to the response when the screenshot fails
ScreenshotOptional ==
    /\ pc = "screenshot"
    /\ \E ok \in BOOLEAN :
          /\ pc' = "close"
          /\ log' = IF ok THEN Append(log, "screenshot") ELSE log
    /\ UNCHANGED <<authToken, event, policy, tasks, now, browser, doc, response>>
    /\ UNCHANGED <<todayAtLoad, db, reqs>>

\* await page.screenshot(...)
Screenshot ==
    /\ pc = "screenshot"
    /\ \E ok \in BOOLEAN :
          IF ok THEN /\ pc' = "close"
                     /\ UNCHANGED response
                ELSE /\ pc' = "done"
                     /\ response' = Crash
    /\ log' = Append(log, "screenshot")
    /\ UNCHANGED <<authToken, event, policy, tasks, now, browser, doc>>
    /\ UNCHANGED <<todayAtLoad, db, reqs>>

\* await browser.close() and the return of the 200 response
Close ==
    /\ pc = "close"
    /\ browser' = "closed"
    /\ response' = OK200
    /\ pc' = "done"
    /\ log' = log \o <<"close", "return">>
    /\ UNCHANGED <<authToken, event, policy, tasks, now, doc>>
    /\ UNCHANGED <<todayAtLoad, db, reqs>>

(* ------------------------- specifications ------------------------------ *)

NoPolicy == [Effect |-> "", user |-> Undefined]

\* the database before anything is stored, for the rendering service
NoDb == [assets |-> <<>>, vendors |-> {}, services |-> <<>>, audit |-> <<>>]

\* new Date() during the invocation: late in one of these days
NowDays == (-Pad)..(MaxDay + Pad + 1)
Nows == {parseISO(d) + TicksPerDay - 1 : d \in NowDays}

Events == {ev \in [hasHeaders : BOOLEAN, apiKey : Tokens \cup {Undefined}, body : Bodies] :
             ~ev.hasHeaders => ev.apiKey = Undefined}

\* one request through the access gate and the render handler
Init ==
    /\ authToken \in Tokens \cup {Undefined}
    /\ event \in Events
    /\ policy = NoPolicy
    /\ pc = "gate"
    /\ tasks = <<>>
    /\ now \in {parseISO(0) + TicksPerDay - 1, parseISO(1) + TicksPerDay - 1}
    /\ browser = "none"
    /\ response = NoResponse
    /\ doc = NoDoc
    /\ log = <<>>
    /\ todayAtLoad = parseISO(0)
    /\ db = NoDb
    /\ reqs = <<>>

Next ==
    \/ Authorize
    \/ Dispatch
    \/ ExecutablePath
    \/ ParseBody
    \/ Launch
    \/ NewPage
    \/ SetContent
    \/ Screenshot
    \/ Close

Spec == Init /\ [][Next]_vars

\* the tasks of ts with their position in the list as Group label
Numbered(ts) ==
    [k \in DOMAIN ts |->
        [Group |-> k, MRO |-> ts[k].MRO, Aircraft |-> ts[k].Aircraft,
         Start |-> ts[k].Start, End |-> ts[k].End,
         Warning |-> ts[k].Warning, Pct |-> ts[k].Pct]]

\* task lists for the ordering of buildHTML: every facility, aircraft and
\* end date
SortInputs ==
    {Numbered(ts) : ts \in
        SeqsOf([MRO : MROs, Aircraft : Aircrafts, Start : {0}, End : Days,
                Warning : {"N/A"}, Pct : {5000}], 1, MaxTasks)}

\* task lists for the date-grid and the bars: every interval start <= end,
\* in lists one shorter than those of SortInputs
GridInputs ==
    {Numbered(ts) : ts \in
        SeqsOf({t \in [MRO : {"MLB"}, Aircraft : {"4884"}, Start : Days, End : Days,
                       Warning : {"N/A"}, Pct : {5000}] : t.Start <= t.End}, 1, MaxTasks - 1)}

\* the Warning values: absent, empty, the README's "N/A", the three names of
\* the data model and the literal buildHTML tests for
Warnings == {Undefined, "", "N/A", "None", "Caution", "WorkStoppage", "Work Stoppage"}

\* PercentComplete values: "0", "0.0954", "0.25", "0.5", "0.9999", "1", "1.25"
Pcts == {0, 954, 2500, 5000, 9999, 10000, 12500}

\* one-task lists for the styling of a row: every warning and percentage
RowInputs ==
    {<<t>> : t \in {u \in [Group : {1}, MRO : {"MLB"}, Aircraft : {"4884"},
                            Start : Days, End : Days,
                            Warning : Warnings, Pct : Pcts] : u.Start <= u.End}}

\* a buildHTML that reads the module-level today instead of its own
CallBuildHTMLStale ==
    /\ pc = "buildHTML"
    /\ doc' = buildHTML(tasks, todayAtLoad)
    /\ tasks' = callerTasks(tasks)
    /\ pc' = "built"
    /\ log' = Append(log, "buildHTML")
    /\ UNCHANGED <<authToken, event, policy, now, browser, response>>
    /\ UNCHANGED <<todayAtLoad, db, reqs>>

\* one call buildHTML(tasks)
CallBuildHTML ==
    /\ pc = "buildHTML"
    /\ doc' = buildHTML(tasks, now)
    /\ tasks' = callerTasks(tasks)
    /\ pc' = "built"
    /\ log' = Append(log, "buildHTML")
    /\ UNCHANGED <<authToken, event, policy, now, browser, response>>
    /\ UNCHANGED <<todayAtLoad, db, reqs>>

InitBuild ==
    /\ \/ tasks \in SortInputs /\ now = parseISO(0) + TicksPerDay - 1
       \/ tasks \in GridInputs /\ now \in Nows
       \/ tasks \in RowInputs /\ now = parseISO(0) + TicksPerDay - 1
    /\ todayAtLoad = parseISO(0)
    /\ db = NoDb
    /\ reqs = <<>>
    /\ authToken = Undefined
    /\ event = [hasHeaders |-> FALSE, apiKey |-> Undefined, body |-> Undefined]
    /\ policy = NoPolicy
    /\ pc = "buildHTML"
    /\ browser = "none"
    /\ response = NoResponse
    /\ doc = NoDoc
    /\ log = <<>>

NextBuild == CallBuildHTML

SpecBuild == InitBuild /\ [][NextBuild]_vars

\* the instants of invocations in a warm process: late in a day of Days
WarmNows == {parseISO(d) + TicksPerDay - 1 : d \in Days}

WarmInputs == {ts \in GridInputs : Len(ts) = 1}

\* the next invocation arrives in the process that served the earlier ones:
\* its task list, and new Date() no earlier than before
Invoke ==
    /\ pc \in {"loaded", "built"}
    /\ Len(log) < MaxInvocations
    /\ tasks' \in WarmInputs
    /\ now' \in {n \in WarmNows : n >= now}
    /\ pc' = "buildHTML"
    /\ UNCHANGED <<authToken, event, policy, browser, response, doc, log>>
    /\ UNCHANGED <<todayAtLoad, db, reqs>>

\* ganttBuilder.js has been loaded: its const today holds the instant of the load
InitWarm ==
    /\ todayAtLoad \in WarmNows
    /\ now = todayAtLoad
    /\ tasks = <<>>
    /\ db = NoDb
    /\ reqs = <<>>
    /\ authToken = Undefined
    /\ event = [hasHeaders |-> FALSE, apiKey |-> Undefined, body |-> Undefined]
    /\ policy = NoPolicy
    /\ pc = "loaded"
    /\ browser = "none"
    /\ response = NoResponse
    /\ doc = NoDoc
    /\ log = <<>>

NextWarm ==
    \/ Invoke
    \/ CallBuildHTML

\* several invocations, one after the other, in one process
SpecWarm == InitWarm /\ [][NextWarm]_vars

(* ----------------------- asset records API ----------------------------- *)

\* the variables of the rendering service, which the API leaves alone
renderVars == <<authToken, event, policy, pc, tasks, now, browser, response, doc, log,
                todayAtLoad>>

\* the callers the route handlers serve at the same time, each with one
\* request in flight
Clients == {"c1", "c2"}

AssetStatus == {"IN_SERVICE", "AT_VENDOR", "RETIRED", "BER"}
ServiceType == {"STANDARD", "OVERHAUL"}

\* validateServiceType(...).valid
validateServiceType(lifecyclePhase, serviceType) ==
    IF lifecyclePhase = 5 /\ serviceType # "OVERHAUL" THEN FALSE
    ELSE IF lifecyclePhase < 5 /\ serviceType # "STANDARD" THEN FALSE
    ELSE TRUE

calculateNextPosition(currentPosition, serviceType) ==
    IF serviceType = "OVERHAUL" THEN 1 ELSE currentPosition + 1

\* validateAssetCanBeServiced(...).valid
validateAssetCanBeServiced(status) ==
    IF status = "RETIRED" THEN FALSE
    ELSE IF status = "BER" THEN FALSE
    ELSE TRUE

\* s.toUpperCase().trim() on the part and serial numbers of AssetBodies
toUpperCaseTrim(s) == IF s = " pn-1" THEN "PN-1" ELSE s

\* bodies of POST /api/assets: lifecyclePhase is <<>> when absent and <<p>>
\* when given; the first body is well formed, the others differ from it in
\* one member
AssetBodies ==
    {b \in [partNumber : {"PN-1", " pn-1", ""}, serialNumber : {"SN-1"},
            lifecyclePhase : {<<4>>, <<>>, <<0>>, <<5>>, <<6>>},
            status : {Undefined, "RETIRED", "SCRAPPED"}] :
        Cardinality({f \in {"partNumber", "lifecyclePhase", "status"} :
                        b[f] # [partNumber |-> "PN-1", lifecyclePhase |-> <<4>>,
                                status |-> Undefined][f]}) <= 1}

\* bodies of POST /api/services: well formed with either service type, or a
\* STANDARD service with one member wrong; workPerformed stands for the
\* required members
ServiceBodies ==
    {b \in [assetComponentId : {1, 2}, vendorId : {1, 2},
            serviceType : {"STANDARD", "OVERHAUL", "REPAIR"},
            serviceDate : {"2025-01-01", "soon"},
            workPerformed : {"inspected", ""}] :
        LET wrong == Cardinality({f \in {"assetComponentId", "vendorId", "serviceDate",
                                         "workPerformed"} :
                        b[f] # [assetComponentId |-> 1, vendorId |-> 1,
                                serviceDate |-> "2025-01-01",
                                workPerformed |-> "inspected"][f]})
        IN IF b.serviceType = "STANDARD" THEN wrong <= 1 ELSE wrong = 0}

\* PUT /api/assets/[id]: the id of the path and the body
UpdateBodies ==
    {[id |-> 1, status |-> "RETIRED", notes |-> Undefined],
     [id |-> 2, status |-> "RETIRED", notes |-> Undefined],
     [id |-> 1, status |-> Undefined, notes |-> Undefined],
     [id |-> 1, status |-> Undefined, notes |-> "checked"],
     [id |-> 1, status |-> "", notes |-> Undefined],
     [id |-> 1, status |-> "SCRAPPED", notes |-> Undefined]}

\* no row read yet; serviceRecord is the id of result.serviceRecord, 0 before
\* the transaction
NoAsset == [id |-> 0]

\* a caller without a request
Idle == [kind |-> "none", pc |-> "idle", body |-> [id |-> 0], asset |-> NoAsset,
         serviceRecord |-> 0, status |-> 0, n |-> 0]

\* the requests that may arrive, each at the first step of its handler
NewRequests ==
    {[kind |-> "POST /api/assets", pc |-> "findExisting", body |-> b, asset |-> NoAsset,
      serviceRecord |-> 0, status |-> 0, n |-> 0] : b \in AssetBodies}
    \cup {[kind |-> "POST /api/services", pc |-> "findAsset", body |-> b,
           asset |-> NoAsset, serviceRecord |-> 0, status |-> 0, n |-> 0] :
              b \in ServiceBodies}
    \cup {[kind |-> "PUT /api/assets/[id]", pc |-> "findExisting", body |-> b,
           asset |-> NoAsset, serviceRecord |-> 0, status |-> 0, n |-> 0] :
              b \in UpdateBodies}

\* the number of requests issued so far
RECURSIVE Issued(_)
Issued(cs) ==
    IF cs = {} THEN 0
    ELSE LET c == CHOOSE x \in cs : TRUE IN reqs[c].n + Issued(cs \ {c})

\* return NextResponse.json(response, { status: code }): the handler is over
\* and its locals are gone
Respond(c, code) ==
    reqs' = [reqs EXCEPT ![c] = [Idle EXCEPT !.kind = reqs[c].kind, !.pc = "done",
                                             !.status = code, !.n = reqs[c].n]]

\* prisma.auditLog.create inside the try/catch of createAuditLog: the entry
\* is written, or the failure is logged and swallowed
createAuditLog(ok, tableName, recordId, action) ==
    IF ok
    THEN Append(db.audit, [tableName |-> tableName, recordId |-> recordId, action |-> action])
    ELSE db.audit

\* a caller sends its next request
Request(c) ==
    /\ reqs[c].pc \in {"idle", "done"}
    /\ Issued(Clients) < MaxRequests
    /\ \E r \in NewRequests : reqs' = [reqs EXCEPT ![c] = [r EXCEPT !.n = reqs[c].n + 1]]
    /\ UNCHANGED db
    /\ UNCHANGED renderVars

\* POST /api/assets up to the findUnique on the part and serial number as sent
AssetsFindExisting(c) ==
    /\ reqs[c].kind = "POST /api/assets"
    /\ reqs[c].pc = "findExisting"
    /\ LET body == reqs[c].body
           lifecyclePhase == IF body.lifecyclePhase = <<>> THEN 1 ELSE body.lifecyclePhase[1]
           status == IF body.status = Undefined THEN "IN_SERVICE" ELSE body.status
       IN IF body.partNumber = "" \/ body.serialNumber = "" THEN Respond(c, 400)
          ELSE IF lifecyclePhase < 1 \/ lifecyclePhase > 5 THEN Respond(c, 400)
          ELSE IF status \notin AssetStatus THEN Respond(c, 400)
          ELSE \E ok \in BOOLEAN :
                  IF ~ok THEN Respond(c, 500)
                  ELSE IF \E i \in DOMAIN db.assets :
                             /\ db.assets[i].partNumber = body.partNumber
                             /\ db.assets[i].serialNumber = body.serialNumber
                       THEN Respond(c, 409)
                       ELSE reqs' = [reqs EXCEPT ![c].pc = "create"]
    /\ UNCHANGED db
    /\ UNCHANGED renderVars

\* prisma.assetComponent.create: the row is stored under the next id, unless
\* the call fails or the composite key partNumber_serialNumber is taken
AssetsCreate(c) ==
    /\ reqs[c].kind = "POST /api/assets"
    /\ reqs[c].pc = "create"
    /\ LET body == reqs[c].body
           asset == [id |-> Len(db.assets) + 1,
                     partNumber |-> toUpperCaseTrim(body.partNumber),
                     serialNumber |-> toUpperCaseTrim(body.serialNumber),
                     lifecyclePhase |-> IF body.lifecyclePhase = <<>> THEN 1
                                        ELSE body.lifecyclePhase[1],
                     totalServiceCount |-> 0,
                     status |-> IF body.status = Undefined THEN "IN_SERVICE"
                                ELSE body.status]
       IN \E ok \in BOOLEAN :
             IF \/ ~ok
                \/ \E i \in DOMAIN db.assets :
                      /\ db.assets[i].partNumber = asset.partNumber
                      /\ db.assets[i].serialNumber = asset.serialNumber
             THEN /\ Respond(c, 500)
                  /\ UNCHANGED db
             ELSE /\ db' = [db EXCEPT !.assets = Append(@, asset)]
                  /\ reqs' = [reqs EXCEPT ![c].pc = "audit", ![c].asset = asset]
    /\ UNCHANGED renderVars

\* await auditCreate('AssetComponent', asset.id, ...) and the 201 response
AssetsAudit(c) ==
    /\ reqs[c].kind = "POST /api/assets"
    /\ reqs[c].pc = "audit"
    /\ \E ok \in BOOLEAN :
          db' = [db EXCEPT !.audit =
                    createAuditLog(ok, "AssetComponent", reqs[c].asset.id, "CREATE")]
    /\ Respond(c, 201)
    /\ UNCHANGED renderVars

\* POST /api/services up to the findUnique of the asset: the snapshot the
\* rest of the handler works with
ServicesFindAsset(c) ==
    /\ reqs[c].kind = "POST /api/services"
    /\ reqs[c].pc = "findAsset"
    /\ LET body == reqs[c].body
       IN IF body.workPerformed = "" THEN Respond(c, 400)
          ELSE IF body.serviceType \notin ServiceType THEN Respond(c, 400)
          ELSE \E ok \in BOOLEAN :
                  IF ~ok THEN Respond(c, 500)
                  ELSE IF body.assetComponentId \notin DOMAIN db.assets
                       THEN Respond(c, 404)
                       ELSE reqs' = [reqs EXCEPT ![c].pc = "findVendor",
                                                 ![c].asset = db.assets[body.assetComponentId]]
    /\ UNCHANGED db
    /\ UNCHANGED renderVars

\* a handler that stores the service record before it looks at the date
ServicesFindVendorDateLast(c) ==
    /\ reqs[c].kind = "POST /api/services"
    /\ reqs[c].pc = "findVendor"
    /\ LET body == reqs[c].body
           asset == reqs[c].asset
       IN \E ok \in BOOLEAN :
             IF ~ok THEN Respond(c, 500) /\ UNCHANGED db
             ELSE IF body.vendorId \notin db.vendors THEN Respond(c, 404) /\ UNCHANGED db
             ELSE IF ~validateAssetCanBeServiced(asset.status)
                  THEN Respond(c, 400) /\ UNCHANGED db
             ELSE IF ~validateServiceType(asset.lifecyclePhase, body.serviceType)
                  THEN Respond(c, 400) /\ UNCHANGED db
             ELSE IF body.serviceDate = "soon"
                  THEN /\ Respond(c, 400)
                       /\ db' = [db EXCEPT !.services =
                                    Append(@, [id |-> Len(db.services) + 1,
                                               assetComponentId |-> body.assetComponentId,
                                               vendorId |-> body.vendorId,
                                               serviceType |-> body.serviceType,
                                               lifecyclePhaseAtService |-> asset.lifecyclePhase])]
             ELSE reqs' = [reqs EXCEPT ![c].pc = "transaction"] /\ UNCHANGED db
    /\ UNCHANGED renderVars

\* the findUnique of the vendor and the validations of the snapshot
ServicesFindVendor(c) ==
    /\ reqs[c].kind = "POST /api/services"
    /\ reqs[c].pc = "findVendor"
    /\ LET body == reqs[c].body
           asset == reqs[c].asset
       IN \E ok \in BOOLEAN :
             IF ~ok THEN Respond(c, 500)
             ELSE IF body.vendorId \notin db.vendors THEN Respond(c, 404)
             ELSE IF ~validateAssetCanBeServiced(asset.status) THEN Respond(c, 400)
             ELSE IF ~validateServiceType(asset.lifecyclePhase, body.serviceType)
                  THEN Respond(c, 400)
             ELSE IF body.serviceDate = "soon" THEN Respond(c, 400)
             ELSE reqs' = [reqs EXCEPT ![c].pc = "transaction"]
    /\ UNCHANGED db
    /\ UNCHANGED renderVars

\* prisma.$transaction: the service record and the update of the asset,
\* both from the snapshot, or neither
ServicesTransaction(c) ==
    /\ reqs[c].kind = "POST /api/services"
    /\ reqs[c].pc = "transaction"
    /\ LET body == reqs[c].body
           asset == reqs[c].asset
           newLifecyclePhase == calculateNextPosition(asset.lifecyclePhase, body.serviceType)
           serviceRecord == [id |-> Len(db.services) + 1,
                             assetComponentId |-> body.assetComponentId,
                             vendorId |-> body.vendorId,
                             serviceType |-> body.serviceType,
                             lifecyclePhaseAtService |-> asset.lifecyclePhase]
       IN \E ok \in BOOLEAN :
             IF ~ok
             THEN /\ Respond(c, 500)
                  /\ UNCHANGED db
             ELSE /\ db' = [db EXCEPT
                              !.services = Append(@, serviceRecord),
                              !.assets[body.assetComponentId] =
                                  [@ EXCEPT !.lifecyclePhase = newLifecyclePhase,
                                            !.totalServiceCount = asset.totalServiceCount + 1,
                                            !.status = "IN_SERVICE"]]
                  /\ reqs' = [reqs EXCEPT ![c].pc = "auditCreate",
                                            ![c].serviceRecord = serviceRecord.id]
    /\ UNCHANGED renderVars

\* await auditCreate('ServiceRecord', ...)
ServicesAuditCreate(c) ==
    /\ reqs[c].kind = "POST /api/services"
    /\ reqs[c].pc = "auditCreate"
    /\ \E ok \in BOOLEAN :
          db' = [db EXCEPT !.audit =
                    createAuditLog(ok, "ServiceRecord", reqs[c].serviceRecord, "CREATE")]
    /\ reqs' = [reqs EXCEPT ![c].pc = "auditUpdate"]
    /\ UNCHANGED renderVars

\* await auditUpdate('AssetComponent', asset.id, ...) and the 201 response
ServicesAuditUpdate(c) ==
    /\ reqs[c].kind = "POST /api/services"
    /\ reqs[c].pc = "auditUpdate"
    /\ \E ok \in BOOLEAN :
          db' = [db EXCEPT !.audit =
                    createAuditLog(ok, "AssetComponent", reqs[c].asset.id, "UPDATE")]
    /\ Respond(c, 201)
    /\ UNCHANGED renderVars

\* PUT /api/assets/[id] up to the check that there is something to update
UpdateFindExisting(c) ==
    /\ reqs[c].kind = "PUT /api/assets/[id]"
    /\ reqs[c].pc = "findExisting"
    /\ LET body == reqs[c].body
       IN \E ok \in BOOLEAN :
             IF ~ok THEN Respond(c, 500)
             ELSE IF body.id \notin DOMAIN db.assets THEN Respond(c, 404)
             ELSE IF body.status \notin {Undefined, ""} /\ body.status \notin AssetStatus
                  THEN Respond(c, 400)
             ELSE IF body.status = Undefined /\ body.notes = Undefined THEN Respond(c, 400)
             ELSE reqs' = [reqs EXCEPT ![c].pc = "update", ![c].asset = db.assets[body.id]]
    /\ UNCHANGED db
    /\ UNCHANGED renderVars

\* prisma.assetComponent.update({ where: { id }, data: updateData })
UpdateAsset(c) ==
    /\ reqs[c].kind = "PUT /api/assets/[id]"
    /\ reqs[c].pc = "update"
    /\ LET body == reqs[c].body
       IN \E ok \in BOOLEAN :
             IF ~ok
             THEN /\ Respond(c, 500)
                  /\ UNCHANGED db
             ELSE /\ db' = [db EXCEPT !.assets[body.id].status =
                              IF body.status # Undefined THEN body.status ELSE @]
                  /\ reqs' = [reqs EXCEPT ![c].pc = "audit"]
    /\ UNCHANGED renderVars

\* await auditUpdate('AssetComponent', id, ...) and the 200 response
UpdateAudit(c) ==
    /\ reqs[c].kind = "PUT /api/assets/[id]"
    /\ reqs[c].pc = "audit"
    /\ \E ok \in BOOLEAN :
          db' = [db EXCEPT !.audit =
                    createAuditLog(ok, "AssetComponent", reqs[c].body.id, "UPDATE")]
    /\ Respond(c, 200)
    /\ UNCHANGED renderVars

\* a database that holds one vendor and no asset yet, and no request
InitApi ==
    /\ db = [assets |-> <<>>, vendors |-> {1}, services |-> <<>>, audit |-> <<>>]
    /\ reqs = [c \in Clients |-> Idle]
    /\ authToken = Undefined
    /\ event = [hasHeaders |-> FALSE, apiKey |-> Undefined, body |-> Undefined]
    /\ policy = NoPolicy
    /\ pc = "api"
    /\ tasks = <<>>
    /\ now = parseISO(0)
    /\ browser = "none"
    /\ response = NoResponse
    /\ doc = NoDoc
    /\ log = <<>>
    /\ todayAtLoad = parseISO(0)

NextApi ==
    \/ \E c \in Clients : Request(c)
    \/ \E c \in Clients : AssetsFindExisting(c)
    \/ \E c \in Clients : AssetsCreate(c)
    \/ \E c \in Clients : AssetsAudit(c)
    \/ \E c \in Clients : ServicesFindAsset(c)
    \/ \E c \in Clients : ServicesFindVendor(c)
    \/ \E c \in Clients : ServicesTransaction(c)
    \/ \E c \in Clients : ServicesAuditCreate(c)
    \/ \E c \in Clients : ServicesAuditUpdate(c)
    \/ \E c \in Clients : UpdateFindExisting(c)
    \/ \E c \in Clients : UpdateAsset(c)
    \/ \E c \in Clients : UpdateAudit(c)

\* requests of several callers, their handlers interleaving at every await
SpecApi == InitApi /\ [][NextApi]_vars

(* ----------------------------- claims ---------------------------------- *)

\* the steps of the render handler, as they appear in log
RenderSteps == {"executablePath", "parse", "launch", "newPage", "buildHTML",
                "setContent", "screenshot", "close", "return"}

\* C1: once the browser has been launched it is closed before the invocation
\* ends, on every exit path: no invocation ends with the browser still open.
C1_BrowserClosedAtExit == pc = "done" => browser # "open"

\* C2: the access gate answers Deny for every request whose x-api-key header
\* is missing or differs from the configured value, whether or not a value is
\* configured.
C2_DenyUnlessMatching ==
    (pc # "gate" /\ event.hasHeaders
        /\ (event.apiKey = Undefined \/ event.apiKey # authToken))
    => policy.Effect = "Deny"

C4_GateBeforeRender ==
    /\ \A i \in DOMAIN log :
          log[i] \in RenderSteps => (i > 2 /\ log[1] = "authorize" /\ policy.Effect = "Allow")
    /\ policy.Effect = "Deny" =>
          /\ \A i \in DOMAIN log : log[i] \notin RenderSteps
          /\ tasks = <<>>
          /\ doc = NoDoc
          /\ browser = "none"

C4_Witness ==
    /\ pc = "done"
    /\ policy.Effect = "Deny"
    /\ event.body = "{\"tasks\":[TaskA]}"
    /\ response.statusCode = 403

\* the body does not parse as JSON, or the parsed value has no member
\* 'tasks' that is an array
BadShape(ev) ==
    LET v == JSONparse(BodyText(ev))
    IN v.kind # "object" \/ ~v.has \/ ~v.isArray

\* C5: a render request whose body is not parseable JSON or carries no tasks
\* array is answered 400 with an error body, buildHTML is not called for it
\* and no browser is launched.
C5_BadShapeAnswered400 ==
    (pc = "done" /\ policy.Effect = "Allow" /\ BadShape(event))
    => /\ response.statusCode = 400
       /\ response.error # ""
       /\ doc = NoDoc
       /\ browser = "none"
       /\ \A i \in DOMAIN log : log[i] \notin {"launch", "buildHTML"}

\* C6: the reason of a 400 response is 'Malformed JSON' exactly when the body
\* does not parse as JSON and 'Invalid or missing tasks array' for every body
\* that parses (object, array, number, string, boolean or null) without an
\* array under 'tasks'; a missing body counts as the empty object.
C6_ReasonString ==
    response.statusCode = 400
    => response.error = IF JSONparse(BodyText(event)).kind = "SyntaxError"
                        THEN "Malformed JSON"
                        ELSE "Invalid or missing tasks array"

\* the task rows of the built document
TaskRows == {i \in DOMAIN doc.body : doc.body[i].class = "task-row"}

\* C7: for a non-empty task list with valid dates and start <= end for every
\* task, every task places a bar: its interval contains a day of the grid.
C7_EveryTaskPlacesBar ==
    doc.built =>
       /\ \A k \in DOMAIN doc.tasks :
             \E i \in DOMAIN doc.range :
                /\ doc.range[i] >= parseISO(doc.tasks[k].Start)
                /\ doc.range[i] <= parseISO(doc.tasks[k].End)
       /\ \A r \in TaskRows :
             \E c \in DOMAIN doc.body[r].cells : doc.body[r].cells[c].class = "fill-cell"

\* the least end date over the tasks of a facility, and over the tasks of a
\* (facility, aircraft) pair
FacilityMinEnd(ts, m) == Min({ts[k].End : k \in {j \in DOMAIN ts : ts[j].MRO = m}})
PairMinEnd(ts, m, a) ==
    Min({ts[k].End : k \in {j \in DOMAIN ts : ts[j].MRO = m /\ ts[j].Aircraft = a}})

\* C8: buildHTML orders the tasks ascending by the least end date of the
\* task's facility, then, between tasks of one facility, by the least end date
\* of the task's (facility, aircraft) pair, then by the task's own end date.
C8_ThreeKeyOrder ==
    doc.built =>
       \A i, j \in DOMAIN doc.tasks :
          i < j =>
             LET ts == doc.tasks
                 a == ts[i]
                 b == ts[j]
             IN /\ FacilityMinEnd(ts, a.MRO) <= FacilityMinEnd(ts, b.MRO)
                /\ a.MRO = b.MRO =>
                      /\ PairMinEnd(ts, a.MRO, a.Aircraft) <= PairMinEnd(ts, b.MRO, b.Aircraft)
                      /\ PairMinEnd(ts, a.MRO, a.Aircraft) = PairMinEnd(ts, b.MRO, b.Aircraft)
                            => a.End <= b.End

\* C9: the body holds exactly one facility-separator row per distinct facility
\* and, under each facility, exactly one aircraft-separator row per distinct
\* aircraft of that facility: the tasks of a facility, and of an aircraft
\* within it, are contiguous in render order.
C9_OneSeparatorPerGroup ==
    doc.built =>
       /\ Cardinality({i \in DOMAIN doc.body : doc.body[i].class = "mro-header"})
             = Cardinality({doc.tasks[k].MRO : k \in DOMAIN doc.tasks})
       /\ Cardinality({i \in DOMAIN doc.body : doc.body[i].class = "ac-header"})
             = Cardinality({<<doc.tasks[k].MRO, doc.tasks[k].Aircraft>> : k \in DOMAIN doc.tasks})

\* the bounds of the grid of the built document: 3 days before the least
\* start date and 3 days after the greatest end date
LowerBound == addDays(parseISO(Min({tasks[k].Start : k \in DOMAIN tasks})), -3)
UpperBound == addDays(parseISO(Max({tasks[k].End : k \in DOMAIN tasks})), 3)

\* C10 as stated: the earliest day of the grid is 3 days before the least
\* start date and the latest day of the grid is 3 days after the greatest end
\* date.
C10_GridEndsAtBounds ==
    doc.built =>
       /\ doc.range[1] = LowerBound
       /\ doc.range[Len(doc.range)] = UpperBound

\* C10 amended: the earliest day of the grid is 3 days before the least start
\* date; the latest day of the grid is 3 days after the greatest end date when
\* that day is an even number of days after the earliest one or is the current
\* date, and 2 days after the greatest end date otherwise; no day of the grid
\* lies outside these bounds.
C10_GridWithinBounds ==
    doc.built =>
       /\ doc.range # <<>>
       /\ doc.range[1] = LowerBound
       /\ doc.range[Len(doc.range)] =
             IF (format(UpperBound) - format(LowerBound)) % 2 = 0
                   \/ format(UpperBound) = format(now)
             THEN UpperBound
             ELSE addDays(UpperBound, -1)
       /\ \A i \in DOMAIN doc.range :
             doc.range[i] >= LowerBound /\ doc.range[i] <= UpperBound

C10_Witness ==
    /\ doc.built
    /\ Len(tasks) > 1
    /\ doc.range[1] = LowerBound
    /\ doc.range[Len(doc.range)] = addDays(UpperBound, -1)

\* C11: for a non-empty task list with valid dates the date-grid is a
\* strictly increasing sequence of days, and a day of the closed interval
\* [least start - 3, greatest end + 3] is in the grid if and only if its
\* zero-based offset from the lower bound is even or it is the current
\* calendar date; so the current date is in the grid whenever it lies in that
\* interval.
C11_GridSampling ==
    doc.built =>
       /\ \A i, j \in DOMAIN doc.range : i < j => doc.range[i] < doc.range[j]
       /\ \A i \in DOMAIN doc.range :
             /\ doc.range[i] = parseISO(format(doc.range[i]))
             /\ doc.range[i] >= LowerBound
             /\ doc.range[i] <= UpperBound
       /\ \A d \in format(LowerBound)..format(UpperBound) :
             (\E i \in DOMAIN doc.range : format(doc.range[i]) = d)
             <=> ((d - format(LowerBound)) % 2 = 0 \/ d = format(now))

C11_Witness ==
    /\ doc.built
    /\ (format(now) - format(LowerBound)) % 2 = 1
    /\ \E i \in DOMAIN doc.range : format(doc.range[i]) = format(now)
    /\ \E d \in format(LowerBound)..format(UpperBound) :
          \A i \in DOMAIN doc.range : format(doc.range[i]) # d

\* the grid columns whose day lies in the interval of task t
ColumnsWithin(t) ==
    {k \in DOMAIN doc.range :
        doc.range[k] >= parseISO(t.Start) /\ doc.range[k] <= parseISO(t.End)}

\* the bars of row r: its merged cells
Bars(r) == {c \in DOMAIN doc.body[r].cells : doc.body[r].cells[c].class = "fill-cell"}

\* C12: in every task row the bar is one merged cell; it starts at the first
\* grid column whose day lies in [start date, end date], its colspan is the
\* number of grid days in that interval, and it covers exactly those columns,
\* a contiguous run, the single cells of the row taking all other columns.
C12_BarCoversInterval ==
    doc.built =>
       \A r \in TaskRows :
          LET row == doc.body[r]
              within == ColumnsWithin(row.task)
          IN /\ Cardinality(Bars(r)) <= 1
             /\ Bars(r) = {} <=> within = {}
             /\ \A c \in Bars(r) :
                   /\ row.cells[c].col = Min(within)
                   /\ row.cells[c].colspan = Cardinality(within)
                   /\ row.cells[c].col..(row.cells[c].col + row.cells[c].colspan - 1) = within
             /\ {row.cells[c].col : c \in DOMAIN row.cells \ Bars(r)}
                   = DOMAIN doc.range \ within

C12_Witness ==
    /\ doc.built
    /\ \E r \in TaskRows :
          \E c \in Bars(r) :
             /\ doc.body[r].cells[c].col > 1
             /\ doc.body[r].cells[c].colspan >= 2
             /\ doc.body[r].cells[c].col + doc.body[r].cells[c].colspan - 1 < Len(doc.range)

\* C13: in the order buildHTML produces, of two tasks of the same facility
\* and the same aircraft the one with the earlier end date comes first, and
\* two such tasks with equal end dates keep their order of the input list.
C13_StableByEndDate ==
    doc.built =>
       /\ \A i \in DOMAIN doc.tasks :
             /\ doc.tasks[i].Group \in DOMAIN tasks
             /\ tasks[doc.tasks[i].Group] = doc.tasks[i]
       /\ \A i, j \in DOMAIN doc.tasks :
             (i < j /\ doc.tasks[i].MRO = doc.tasks[j].MRO
                    /\ doc.tasks[i].Aircraft = doc.tasks[j].Aircraft)
             => /\ doc.tasks[i].End <= doc.tasks[j].End
                /\ doc.tasks[i].End = doc.tasks[j].End
                      => doc.tasks[i].Group < doc.tasks[j].Group

C13_Witness ==
    /\ doc.built
    /\ \E i, j \in DOMAIN doc.tasks :
          /\ i < j
          /\ doc.tasks[i].MRO = doc.tasks[j].MRO
          /\ doc.tasks[i].Aircraft = doc.tasks[j].Aircraft
          /\ doc.tasks[i].End = doc.tasks[j].End
          /\ doc.tasks[i].Group # i
          /\ doc.tasks[j].Group # j

\* C14: the severity class of a task row is critical when the warning is
\* WorkStoppage, caution for any other warning that is non-empty and not
\* "N/A", and none when the warning is absent, empty or "N/A"; the warning
\* cell and the bar track carry the same class.
C14_SeverityClass ==
    doc.built =>
       \A r \in TaskRows :
          LET w == doc.body[r].task.Warning
              class == IF w = "WorkStoppage" THEN "warning-critical"
                       ELSE IF w \notin {Undefined, "", "N/A"} THEN "warning-caution"
                       ELSE ""
          IN /\ doc.body[r].warn = class
             /\ \A c \in Bars(r) : doc.body[r].cells[c].track = class

\* C15: a request whose tasks array is empty never reaches the computation
\* of the least and greatest date of the grid: it is rejected as an
\* input-shape error with a client-error response, not by a failure inside
\* the pipeline.
C15_EmptyTasksRejected ==
    (BodyText(event) = "{\"tasks\":[]}" /\ policy.Effect = "Allow")
    => /\ ~doc.threw
       /\ \A i \in DOMAIN log : log[i] # "buildHTML"
       /\ (pc = "done" /\ response # Crash) => response.statusCode = 400

C17_DocumentOfTasksAndDay ==
    pc = "built" => doc = buildHTML(tasks, parseISO(format(now)))

C17_Witness ==
    /\ pc = "built"
    /\ Len(log) = 2
    /\ doc.built
    /\ format(now) # format(todayAtLoad)

\* C18: buildHTML leaves the list of its caller as it was: after the call
\* the list holds the same elements in the same order as before.
C18_CallerListUnchanged ==
    [][(pc = "buildHTML" /\ pc' = "built") => tasks' = tasks]_vars

C18_Witness ==
    /\ pc = "built"
    /\ doc.built
    /\ doc.tasks # tasks

\* the service record the step creates, if it creates one
Accepted == Len(db'.services) > Len(db.services)
NewRecord == db'.services[Len(db'.services)]

\* C19: POST /api/services accepts a service for a serviceable asset only
\* when the service type matches the asset's current position: at position 5
\* only OVERHAUL, at positions 1 to 4 only STANDARD; every other combination
\* is rejected with status 400.
C19_TypeMatchesPosition ==
    [][/\ Accepted =>
             LET position == db.assets[NewRecord.assetComponentId].lifecyclePhase
             IN /\ position = 5 => NewRecord.serviceType = "OVERHAUL"
                /\ position \in 1..4 => NewRecord.serviceType = "STANDARD"
       /\ \A c \in Clients :
             (/\ reqs[c].kind = "POST /api/services"
              /\ reqs[c].pc = "findVendor"
              /\ reqs'[c] # reqs[c]
              /\ reqs[c].body.vendorId \in db.vendors
              /\ validateAssetCanBeServiced(db.assets[reqs[c].body.assetComponentId].status)
              /\ LET position == db.assets[reqs[c].body.assetComponentId].lifecyclePhase
                 IN reqs[c].body.serviceType # (IF position = 5 THEN "OVERHAUL" ELSE "STANDARD"))
             => (reqs'[c].pc = "done" /\ reqs'[c].status \in {400, 500})
      ]_vars

\* C20: the lifecyclePhase of an asset created through POST /api/assets is
\* always one of 1..5, whatever requests are served and however they
\* interleave: an accepted STANDARD service moves it from p to p + 1 with p
\* in 1..4, an accepted OVERHAUL moves it from 5 to 1, and nothing else
\* changes it.
C20_LifecyclePhaseSteps ==
    [][\A id \in DOMAIN db'.assets :
          /\ db'.assets[id].lifecyclePhase \in 1..5
          /\ id \in DOMAIN db.assets =>
                LET p == db.assets[id].lifecyclePhase
                    q == db'.assets[id].lifecyclePhase
                IN IF Accepted /\ NewRecord.assetComponentId = id
                   THEN \/ NewRecord.serviceType = "STANDARD" /\ p \in 1..4 /\ q = p + 1
                        \/ NewRecord.serviceType = "OVERHAUL" /\ p = 5 /\ q = 1
                   ELSE q = p
      ]_vars

\* the audit log after the step holds an entry of that action for the record
Logged(tableName, recordId, action) ==
    \E i \in DOMAIN db'.audit :
       db'.audit[i] = [tableName |-> tableName, recordId |-> recordId, action |-> action]

\* caller c gets the response of its request in this step, with a status of
\* success
Succeeds(c) ==
    /\ reqs[c].pc \notin {"idle", "done"}
    /\ reqs'[c].pc = "done"
    /\ reqs'[c].status \in {200, 201}

\* C21: every change made through the API is logged: once a request that
\* created an asset, updated an asset or recorded a service has returned
\* success, the audit log holds an entry for each record the request created
\* or changed.
C21_SuccessIsLogged ==
    [][\A c \in Clients :
          Succeeds(c) =>
             /\ reqs[c].kind = "POST /api/assets"
                   => Logged("AssetComponent", reqs[c].asset.id, "CREATE")
             /\ reqs[c].kind = "PUT /api/assets/[id]"
                   => Logged("AssetComponent", reqs[c].body.id, "UPDATE")
             /\ reqs[c].kind = "POST /api/services"
                   => /\ Logged("ServiceRecord", reqs[c].serviceRecord, "CREATE")
                      /\ Logged("AssetComponent", reqs[c].asset.id, "UPDATE")
      ]_vars

\* the steps of a successful invocation after the engine's path is resolved
StepsInOrder == <<"parse", "launch", "newPage", "buildHTML", "setContent",
                  "screenshot", "close", "return">>

\* the steps of StepsInOrder the invocation has taken, in the order taken
StepsTaken ==
    LET listed(x) == \E i \in DOMAIN StepsInOrder : StepsInOrder[i] = x
    IN SelectSeq(log, listed)

\* C22: within a successful render invocation the steps happen strictly in
\* this order, one after the other: body parsed and validated, browser
\* launched, page opened, document built and loaded, screenshot captured,
\* browser closed, 200 returned; no 200 response with the image is produced
\* without a completed screenshot.
C22_StepsInOrder ==
    /\ Len(StepsTaken) <= Len(StepsInOrder)
    /\ StepsTaken = SubSeq(StepsInOrder, 1, Len(StepsTaken))
    /\ (response.statusCode = 200 \/ response.png)
          => /\ response = OK200
             /\ StepsTaken = StepsInOrder
             /\ doc.built
             /\ browser = "closed"

C22_Witness ==
    /\ pc = "done"
    /\ response = OK200
    /\ StepsTaken = StepsInOrder

\* caller c gets the response of its POST /api/services request in this
\* step, and it is a rejection
Rejected(c) ==
    /\ reqs[c].kind = "POST /api/services"
    /\ reqs[c].pc \notin {"idle", "done"}
    /\ reqs'[c].pc = "done"
    /\ reqs'[c].status \in {400, 404}

\* C23: a POST /api/services request that is rejected (missing required
\* member, invalid service type, unknown asset or vendor, RETIRED or BER
\* asset, service type not matching the position, invalid date) has created
\* no service record and no audit entry and leaves lifecyclePhase,
\* totalServiceCount and status of the asset as they are; each of these
\* defects is answered with a rejection.
C23_RejectedLeavesNoTrace ==
    [][\A c \in Clients :
          /\ Rejected(c) =>
                /\ db' = db
                /\ reqs[c].pc \in {"findAsset", "findVendor"}
                /\ reqs[c].serviceRecord = 0
          /\ (reqs[c].kind = "POST /api/services" /\ reqs'[c] # reqs[c]) =>
                LET body == reqs[c].body IN
                /\ (reqs[c].pc = "findAsset"
                      /\ (body.workPerformed = "" \/ body.serviceType \notin ServiceType))
                   => reqs'[c].status = 400
                /\ (reqs[c].pc = "findVendor"
                      /\ (\/ reqs[c].asset.status \in {"RETIRED", "BER"}
                          \/ body.serviceDate = "soon"
                          \/ body.vendorId \notin db.vendors
                          \/ (reqs[c].asset.lifecyclePhase = 5) # (body.serviceType = "OVERHAUL")))
                   => /\ reqs'[c].pc = "done"
                      /\ reqs'[c].status \in {400, 404, 500}
                      /\ db' = db
      ]_vars

C23_Witness ==
    \E c \in Clients :
       /\ reqs[c].kind = "POST /api/services"
       /\ reqs[c].pc = "done"
       /\ reqs[c].status = 400
       /\ Len(db.assets) = 1
       /\ db.assets[1].status = "RETIRED"
       /\ db.services = <<>>
       /\ db.audit # <<>>

\* the first grid column of band k of the month header
BandStart(k) ==
    LET f[j \in 0..Len(doc.months)] ==
            IF j = 0 THEN 1 ELSE f[j - 1] + doc.months[j].colspan
    IN f[k - 1]

\* C24: the month header is the run-length encoding of the grid: one band
\* per maximal run of consecutive grid days of the same month and year, in
\* grid order, each with colspan equal to the length of its run, so that the
\* colspans sum to the number of grid days.
C24_MonthHeaderRunLengths ==
    doc.built =>
       /\ BandStart(Len(doc.months) + 1) = Len(doc.range) + 1
       /\ \A k \in DOMAIN doc.months :
             /\ doc.months[k].colspan >= 1
             /\ \A i \in BandStart(k)..(BandStart(k) + doc.months[k].colspan - 1) :
                   /\ i \in DOMAIN doc.range
                   /\ formatMonth(doc.range[i]) = doc.months[k].month
             /\ k > 1 => doc.months[k - 1].month # doc.months[k].month

C24_Witness ==
    /\ doc.built
    /\ Len(doc.months) = 3
    /\ doc.months[Len(doc.months)].colspan = 1
    /\ \E k \in DOMAIN doc.months : doc.months[k].colspan >= 3

\* C25: in every task row each grid column the bar does not cover is an
\* empty cell, and such a cell carries the today marker class if and only if
\* its day is the current calendar date, whatever the warning, the dates and
\* the percentComplete of the task.
C25_EmptyCellsMarkToday ==
    doc.built =>
       \A r \in TaskRows :
          LET row == doc.body[r]
              covered == UNION {row.cells[c].col..(row.cells[c].col + row.cells[c].colspan - 1) :
                                   c \in Bars(r)}
          IN \A k \in DOMAIN doc.range \ covered :
                /\ Cardinality({c \in DOMAIN row.cells : row.cells[c].col = k}) = 1
                /\ \A c \in DOMAIN row.cells :
                      row.cells[c].col = k =>
                         /\ row.cells[c].class \in {"", "today-col"}
                         /\ row.cells[c].class = "today-col"
                               <=> format(doc.range[k]) = format(now)

C25_Witness ==
    /\ doc.built
    /\ \E r \in TaskRows :
          /\ Bars(r) # {}
          /\ doc.body[r].task.Warning = "Caution"
          /\ \E c \in DOMAIN doc.body[r].cells : doc.body[r].cells[c].class = "today-col"

\* C26: POST /api/services requests on one asset that overlap in time behave
\* like some serial order of the accepted ones: every accepted request
\* advances the asset by one step from the position stored in its service
\* record's lifecyclePhaseAtService, and totalServiceCount grows by exactly
\* the number of service records created.
C26_SerialOrder ==
    [][/\ Accepted =>
             LET id == NewRecord.assetComponentId
             IN /\ db.assets[id].lifecyclePhase = NewRecord.lifecyclePhaseAtService
                /\ db'.assets[id].lifecyclePhase =
                      calculateNextPosition(NewRecord.lifecyclePhaseAtService,
                                            NewRecord.serviceType)
       /\ \A id \in DOMAIN db'.assets :
             db'.assets[id].totalServiceCount =
                Cardinality({i \in DOMAIN db'.services : db'.services[i].assetComponentId = id})
      ]_vars

\* the steps of the render handler that use the browser engine
EngineSteps == {"executablePath", "launch", "newPage", "setContent", "screenshot", "close"}

\* C27: in the render handler a request with an input-shape error gets its
\* 400 response without any browser-engine step having run before it, the
\* resolving of the engine's executable path included, so that a failing
\* engine cannot turn an input-shape error into a crash.
C27_ShapeErrorBeforeEngine ==
    /\ response.statusCode = 400 => \A i \in DOMAIN log : log[i] \notin EngineSteps
    /\ (BadShape(event) /\ policy.Effect = "Allow")
          => /\ \A i \in DOMAIN log : log[i] \notin EngineSteps
             /\ response # Crash

\* C28: authorize is total: for every incoming event, one that carries no
\* headers at all included, it returns a policy whose Effect is Allow or
\* Deny and never fails without a decision.
C28_AuthorizeTotal ==
    pc # "gate" => policy.Effect \in {"Allow", "Deny"}

\* the number of grid columns the cells cs of a task row take up: a bar takes
\* its colspan, every other cell one column
RECURSIVE RowWidth(_)
RowWidth(cs) ==
    IF cs = <<>> THEN 0
    ELSE (IF Head(cs).class = "fill-cell" THEN Head(cs).colspan ELSE 1)
         + RowWidth(Tail(cs))

\* C29: every task row has the width of the day header: the colspan of the
\* bar plus the number of single cells emitted for the row equals the number
\* of grid days, whether or not the task places a bar.
C29_RowWidthEqualsGrid ==
    doc.built =>
       \A r \in TaskRows :
          /\ RowWidth(doc.body[r].cells) = Len(doc.range)
          /\ Cardinality(Bars(r)) <= 1

\* a document with a row whose bar spans several columns and a row without
\* a bar
C29_Witness ==
    /\ doc.built
    /\ \E r \in TaskRows :
          \E c \in Bars(r) : doc.body[r].cells[c].colspan > 1
    /\ \E r \in TaskRows : Bars(r) = {}

\* an asset is stored under the part and serial number that body has after
\* the normalisation applied when storing
Stored(body) ==
    \E i \in DOMAIN db.assets :
       /\ db.assets[i].partNumber = toUpperCaseTrim(body.partNumber)
       /\ db.assets[i].serialNumber = toUpperCaseTrim(body.serialNumber)

\* C30: POST /api/assets for a part number and serial number that, after the
\* normalisation applied when storing, equal those of an existing asset
\* returns 409 and creates no asset and no audit entry: such a request never
\* gets past the existence check to prisma.assetComponent.create, and it
\* ends with db unchanged; no two stored assets share the normalised pair.
C30_DuplicateIs409 ==
    [][/\ \A c \in Clients :
             (/\ reqs[c].kind = "POST /api/assets"
              /\ reqs[c].pc = "findExisting"
              /\ Stored(reqs[c].body)
              /\ reqs'[c] # reqs[c])
                => /\ reqs'[c].pc = "done"
                   /\ reqs'[c].status \in {400, 409, 500}
                   /\ db' = db
        /\ \A i, j \in DOMAIN db'.assets :
              (/\ db'.assets[i].partNumber = db'.assets[j].partNumber
               /\ db'.assets[i].serialNumber = db'.assets[j].serialNumber) => i = j]_vars
====
